---- MODULE Spec2Model ----
(***************************************************************************)
(* The room/session state machine of the quiz backend: the Room Store      *)
(* (rooms), the pull transport (POST /api/game-event and POST /game-event),*)
(* the push transport (socket.io middleware, connection handler and the    *)
(* per-socket events) and the per-room round timer.                        *)
(*                                                                         *)
(* Times are epoch milliseconds.  timeTaken is in whole seconds.           *)
(* JavaScript undefined / null are modelled per field:                     *)
(*   currentQuestion   null        -> [kind |-> "null"]                    *)
(*   hostSocketId      null        -> NoSocket                             *)
(*   timer             null        -> {}  (a pending handle h -> {h})      *)
(*   questionStartTime undefined   -> 0   (falsy, as in the code's  || )   *)
(*   roundEnded, generatingQuestion undefined -> FALSE (only truthiness    *)
(*                                    is ever read)                        *)
(*   currentSelections, lastSelections undefined -> the empty map (every   *)
(*                                    read is  x || {} )                   *)
(*   lastCorrectAnswer undefined   -> "undefined"                          *)
(*   playerNames       undefined   -> playerNamesDefined = FALSE           *)
(***************************************************************************)
EXTENDS Integers, Sequences, FiniteSets, TLC

\* ---------------------------------------------------------------- constants
MAX_TIME == 15
MAX_POINTS == 150
SCORING_EXPONENT == 2
LEADERBOARD_RESET_HOUR == 0
ROOM_INACTIVE_THRESHOLD == 3600000
LEADERBOARD_RESET_MINUTE == 0

\* The one room key of the model (rooms are isolated from one another).
Channel == "c1"
\* Identities handed out by the identity check, also used as pull playerIds.
Users == {"A", "B"}
\* null for a socket id.
NoSocket == 0

\* ------------------------------------------------------------------- bounds
\* Socket ids are 1..NumSockets, handed out in this order.
NumSockets == 3
\* Questions the pull transport may generate in one run.
MaxRounds == 2
\* The same, where players answer and rounds are scored.
MaxScoredRounds == 1
\* Pending "wait for the generation in flight" callbacks.
MaxFollowers == 1
\* The instants the clock takes (ms); it starts at the least of them.
ClockValues == {1000, 3000, 11000, 16000}
MaxDays == 2
MaxIdlePeriods == 1
MaxTimeTaken == 17
ClockStepHours == 12
\* Inputs of select_option.
OptionInputs == {0, 1}
SelectInputs ==
    { [optionIndex |-> 0, timeTaken |-> 2],  [optionIndex |-> 1, timeTaken |-> 2],
      [optionIndex |-> 1, timeTaken |-> 10], [optionIndex |-> 1, timeTaken |-> 0] }

\* ------------------------------------------------------------------ helpers
Max(a, b) == IF a >= b THEN a ELSE b
Min(a, b) == IF a <= b THEN a ELSE b

RECURSIVE Pow(_, _)
Pow(b, e) == IF e = 0 THEN 1 ELSE b * Pow(b, e - 1)

\* Math.round(num / den) for num >= 0, den > 0: halves go up.
Round(num, den) == (2 * num + den) \div (2 * den)
\* Math.ceil(num / den) for num >= 0, den > 0.
Ceil(num, den) == (num + den - 1) \div den
\* Math.floor(ms / 1000)
FloorSec(ms) == ms \div 1000

EmptyMap == [x \in {} |-> 0]
Put(m, k, v) == [x \in (DOMAIN m) \cup {k} |-> IF x = k THEN v ELSE m[x]]
Remove(m, k) == [x \in (DOMAIN m) \ {k} |-> m[x]]

\* String.prototype.startsWith on strings given as sequences of characters.
StartsWith(s, prefix) ==
    /\ Len(prefix) <= Len(s)
    /\ SubSeq(s, 1, Len(prefix)) = prefix

\* Array.prototype.findIndex(opt => opt.startsWith(answer)): 0-based, -1 if none.
FindIndex(options, answer) ==
    LET hits == {i \in 1..Len(options) : StartsWith(options[i], answer)}
    IN  IF hits = {} THEN -1
        ELSE (CHOOSE i \in hits : \A j \in hits : i <= j) - 1

\* The static question pool (questions.json): options and the answer-key letter.
Questions ==
    << [options |-> << <<"A", ")", "x">>, <<"B", ")", "y">> >>, answer |-> <<"B">>],
       [options |-> << <<"A", ")", "u">>, <<"B", ")", "v">> >>, answer |-> <<"A">>] >>

\* The card pool (cardNames) is represented by its size only.
NumCards == 1

NullQuestion == [kind |-> "null"]

\* ------------------------------------------------------------------ scoring
\* The curve with timeTaken = 0 taken as an instant answer.
calculatePointsFromZero(timeTaken) ==
    IF timeTaken < 0 THEN 0
    ELSE Round(MAX_POINTS * Pow(Max(0, MAX_TIME - timeTaken), SCORING_EXPONENT),
               Pow(MAX_TIME, SCORING_EXPONENT))

\* A straight line from MAX_POINTS to 0 instead of the power curve.
calculatePointsLinear(timeTaken) ==
    IF timeTaken <= 0 THEN 0
    ELSE Round(MAX_POINTS * Max(0, MAX_TIME - timeTaken), MAX_TIME)

calculatePointsFromTime(timeTaken) ==
    IF timeTaken <= 0 THEN 0
    ELSE LET timeLeft == Max(0, MAX_TIME - timeTaken)
             \* x = timeLeft / MAX_TIME clamped to [0, 1], kept as xNum / MAX_TIME
             xNum == Max(0, Min(MAX_TIME, timeLeft))
         IN  Round(MAX_POINTS * Pow(xNum, SCORING_EXPONENT),
                   Pow(MAX_TIME, SCORING_EXPONENT))

\* calculatePointsFromTime applied to data.timeTaken as the request gives it:
\* a missing timeTaken is undefined, and !timeTaken holds.
PointsOfInput(input) ==
    IF ~input.present THEN 0 ELSE calculatePointsFromTime(input.value)

\* -------------------------------------------------------------------- state
VARIABLES
    rooms,          \* channelId -> room object (DOMAIN rooms = the keys present)
    now,            \* Date.now()
    pendingTimers,  \* round-expiry timeouts armed and not yet fired or cleared
    sockets,        \* socket id -> [state, user, reconnecting]
    adapterRoom,    \* io.sockets.adapter.rooms.get(channelId), in join order
    followers,      \* pending setTimeout(.., 100) callbacks of start_question
    resetTimer,     \* due times of the pending daily-reset timeouts
    out,            \* what the last handler sent (response / emitted messages)
    generated,      \* history: number of questions the pull transport generated
    genLog,         \* history: for each generated question, the round its request had seen
    endLog,         \* history: the response of the first end_round of the round
    answeredAt,     \* history: when each player's push selection was recorded
    timeLeftLog     \* history: the least timeLeft returned for the pull question so far

vars == <<rooms, now, pendingTimers, sockets, adapterRoom, followers, out,
          generated, genLog, endLog, answeredAt, timeLeftLog, resetTimer>>

T0 == CHOOSE t \in ClockValues : \A u \in ClockValues : t <= u

\* The calendar of Date, in one time zone without daylight saving: the day
\* number (getFullYear, getMonth and getDate together) and getHours.
HourMs == 60 * 60 * 1000
DayMs == 24 * HourMs
DayOf(t) == t \div DayMs
HourOf(t) == (t % DayMs) \div HourMs
DateAt(day, hour, minute) == day * DayMs + hour * HourMs + minute * 60 * 1000

\* nextReset with the reset hour left out of the day's computation:
\* the reset time of the current day.
NextResetSameDay(t) ==
    DateAt(DayOf(t), LEADERBOARD_RESET_HOUR, LEADERBOARD_RESET_MINUTE)

\* nextReset of scheduleNextReset, for  new Date()  = t.
NextReset(t) ==
    DateAt(DayOf(t) + (IF HourOf(t) >= LEADERBOARD_RESET_HOUR THEN 1 ELSE 0),
           LEADERBOARD_RESET_HOUR, LEADERBOARD_RESET_MINUTE)

\* scheduleNextReset(): one more timeout, due at nextReset.
ScheduleNextReset(timers, t) == timers \cup {NextReset(t)}

\* The room literal of the three creation sites; they differ in hostSocketId
\* and in whether playerNames is present.
NewRoom(host, withNames) ==
    [ players            |-> EmptyMap,
      currentQuestion    |-> NullQuestion,
      selections         |-> EmptyMap,
      hostSocketId       |-> host,
      timer              |-> {},
      gameState          |-> "waiting",
      lastActive         |-> now,
      scores             |-> EmptyMap,
      playerNamesDefined |-> withNames,
      roundEnded         |-> FALSE,
      generatingQuestion |-> FALSE,
      questionStartTime  |-> 0,
      currentSelections  |-> EmptyMap,
      lastSelections     |-> EmptyMap,
      lastCorrectAnswer  |-> "undefined" ]

RoomExists == Channel \in DOMAIN rooms
Room == rooms[Channel]

\* A socket that was never used, and one that is gone (its data is never read again).
IdleSocket == [state |-> "idle", user |-> "A", reconnecting |-> FALSE]
ClosedSocket == [state |-> "closed", user |-> "A", reconnecting |-> FALSE]

NoEndLog == [present |-> FALSE]

Init ==
    /\ rooms = EmptyMap
    /\ now = T0
    /\ pendingTimers = {}
    /\ sockets = [s \in 1..NumSockets |-> IdleSocket]
    /\ adapterRoom = <<>>
    /\ followers = <<>>
    /\ out = [op |-> "init"]
    /\ generated = 0
    /\ genLog = <<>>
    /\ endLog = NoEndLog
    /\ answeredAt = EmptyMap
    /\ timeLeftLog = MAX_TIME
    /\ resetTimer = ScheduleNextReset({}, now)

\* ------------------------------------------------------------------- clock
Tick ==
    /\ \E t \in ClockValues : t > now /\ now' = t
    /\ out' = [op |-> "tick"]
    /\ UNCHANGED <<resetTimer, rooms, pendingTimers, sockets, adapterRoom, followers,
                   generated, genLog, endLog, answeredAt, timeLeftLog>>

\* ---------------------------------------------------------- pull transport
\* The room literal assigned whether or not the key is present.
EnsureFreshRoom(rs) == Put(rs, Channel, NewRoom(NoSocket, TRUE))

\* "Ensure room exists for HTTP requests"
EnsureRoom(rs) ==
    IF Channel \in DOMAIN rs THEN rs ELSE Put(rs, Channel, NewRoom(NoSocket, TRUE))

\* remainingTime counted from the answer itself, not from the question's start.
RemainingTimeFromNow(room) == MAX_TIME

\* remainingTime of the "existing question" answers
RemainingTime(room) ==
    LET questionStartTime == IF room.questionStartTime # 0 THEN room.questionStartTime ELSE now
        elapsedSeconds == FloorSec(now - questionStartTime)
    IN  Max(0, MAX_TIME - elapsedSeconds)

StartTimeOf(room) == IF room.questionStartTime # 0 THEN room.questionStartTime ELSE now

\* getRandomQuestion(): a card or a trivia record; seq is the object's identity.
RandomQuestions(seq) ==
    {[kind |-> "card", idx |-> i, seq |-> seq] : i \in 1..NumCards}
    \cup {[kind |-> "trivia", idx |-> i, seq |-> seq] : i \in 1..Len(Questions)}

ExistingQuestionResponse(room) ==
    [ op |-> "start_question", forceNew |-> FALSE, success |-> TRUE, generated |-> FALSE,
      question |-> room.currentQuestion, timeLeft |-> RemainingTime(room),
      startTime |-> StartTimeOf(room),
      showResult |-> (room.roundEnded \/ RemainingTime(room) <= 0) ]

\* The same update without the assignment of gameState.
WithNewQuestionKeepingState(room, q) ==
    [room EXCEPT !.currentQuestion = q,
                 !.questionStartTime = now,
                 !.lastActive = now,
                 !.roundEnded = FALSE,
                 !.currentSelections = EmptyMap,
                 !.generatingQuestion = FALSE]

\* The state update of a generating start_question.
WithNewQuestion(room, q) ==
    [room EXCEPT !.currentQuestion = q,
                 !.questionStartTime = now,
                 !.lastActive = now,
                 !.gameState = "playing",
                 !.roundEnded = FALSE,
                 !.currentSelections = EmptyMap,
                 !.generatingQuestion = FALSE]

GeneratedResponse(q, forceNew) ==
    [ op |-> "start_question", forceNew |-> forceNew, success |-> TRUE, generated |-> TRUE,
      question |-> q, timeLeft |-> MAX_TIME, startTime |-> now, showResult |-> FALSE ]

\* The follower branch: the request is parked behind a 100 ms timeout.
Park(rs) ==
    /\ Len(followers) < MaxFollowers
    /\ followers' = Append(followers, [live |-> TRUE])
    /\ rooms' = rs
    /\ out' = [op |-> "start_question_parked"]
    /\ UNCHANGED <<generated, genLog, endLog, timeLeftLog>>

Generate(rs, forceNew, seen, maxRounds) ==
    /\ generated < maxRounds
    /\ \E q \in RandomQuestions(generated + 1) :
          /\ rooms' = [rs EXCEPT ![Channel] = WithNewQuestion(rs[Channel], q)]
          /\ out' = GeneratedResponse(q, forceNew)
    /\ generated' = generated + 1
    /\ genLog' = Append(genLog, seen)
    /\ endLog' = NoEndLog
    /\ timeLeftLog' = MAX_TIME
    /\ UNCHANGED followers

\* POST /api/game-event, event start_question.  seen: the number of questions
\* generated when the client sent the request (requests arrive late).
ApiStartQuestion(forceNew, seen, maxRounds) ==
    LET rs == EnsureRoom(rooms)
        room == rs[Channel]
    IN  /\ IF ~forceNew /\ room.currentQuestion.kind # "null"
           THEN /\ rooms' = rs
                /\ out' = ExistingQuestionResponse(room)
                /\ timeLeftLog' = Min(timeLeftLog, RemainingTime(room))
                /\ UNCHANGED <<followers, generated, genLog, endLog>>
           ELSE IF room.generatingQuestion
           THEN Park(rs)
           ELSE Generate(rs, forceNew, seen, maxRounds)
        /\ UNCHANGED <<resetTimer, now, pendingTimers, sockets, adapterRoom, answeredAt>>

\* POST /game-event, event start_question.
FallbackStartQuestion(forceNew, seen, maxRounds) ==
    LET rs == EnsureRoom(rooms)
        room == rs[Channel]
    IN  /\ IF ~forceNew /\ room.currentQuestion.kind # "null"
           THEN /\ rooms' = rs
                /\ out' = ExistingQuestionResponse(room)
                /\ timeLeftLog' = Min(timeLeftLog, RemainingTime(room))
                /\ UNCHANGED <<followers, generated, genLog, endLog>>
           ELSE IF room.generatingQuestion
           THEN Park(rs)
           ELSE IF /\ room.currentQuestion.kind # "null"
                   /\ room.gameState = "playing"
                   /\ ~room.roundEnded
           THEN \* returns with the flag still set
                /\ rooms' = [rs EXCEPT ![Channel].generatingQuestion = TRUE]
                /\ out' = [ op |-> "start_question", forceNew |-> forceNew, success |-> TRUE,
                            generated |-> FALSE, question |-> room.currentQuestion,
                            timeLeft |-> MAX_TIME, startTime |-> now, showResult |-> FALSE ]
                /\ timeLeftLog' = Min(timeLeftLog, MAX_TIME)
                /\ UNCHANGED <<followers, generated, genLog, endLog>>
           ELSE Generate(rs, forceNew, seen, maxRounds)
        /\ UNCHANGED <<resetTimer, now, pendingTimers, sockets, adapterRoom, answeredAt>>

\* The parked request's timeout callback: reads the room, answers, changes nothing.
FollowerTimeout ==
    /\ followers # <<>>
    /\ followers' = Tail(followers)
    /\ LET room == IF Head(followers).live THEN Room ELSE Head(followers).room
       IN  out' = IF room.currentQuestion.kind # "null"
                  THEN [ op |-> "follower_response", success |-> TRUE,
                         generated |-> FALSE, question |-> room.currentQuestion,
                         timeLeft |-> RemainingTime(room), startTime |-> StartTimeOf(room),
                         showResult |-> FALSE ]
                  ELSE [ op |-> "follower_failed", success |-> FALSE ]
    /\ timeLeftLog' = IF Head(followers).live /\ Room.currentQuestion.kind # "null"
                      THEN Min(timeLeftLog, RemainingTime(Room))
                      ELSE timeLeftLog
    /\ UNCHANGED <<resetTimer, rooms, now, pendingTimers, sockets, adapterRoom,
                   generated, genLog, endLog, answeredAt>>

\* select_option keeping a player's first selection of the round.
RecordFirstSelection(selections, playerId, selection) ==
    IF playerId \in DOMAIN selections THEN selections
    ELSE Put(selections, playerId, selection)

\* room.currentSelections[data.playerId] = {..}: a previous selection of the
\* player is overwritten.
RecordSelection(selections, playerId, selection) ==
    Put(selections, playerId, selection)

\* event select_option (the two routes have the same code).  named: whether
\* data.playerName is given.
SelectOption(playerId, optionIndex, timeTaken, named) ==
    LET rs == EnsureRoom(rooms)
        room == rs[Channel]
        isChange == /\ playerId \in DOMAIN room.currentSelections
                    /\ room.currentSelections[playerId].optionIndex # optionIndex
        recorded == [room EXCEPT !.currentSelections =
                        RecordSelection(room.currentSelections, playerId,
                            [optionIndex |-> optionIndex, timeTaken |-> timeTaken])]
    IN  /\ IF named /\ ~room.playerNamesDefined
           THEN \* room.playerNames[..] = .. throws; the catch answers 500
                /\ rooms' = [rs EXCEPT ![Channel] = recorded]
                /\ out' = [op |-> "error", status |-> 500]
           ELSE /\ rooms' = [rs EXCEPT ![Channel] = [recorded EXCEPT !.lastActive = now]]
                /\ out' = [ op |-> "select_option", success |-> TRUE,
                            changed |-> isChange ]
        /\ UNCHANGED <<resetTimer, now, pendingTimers, sockets, adapterRoom, followers,
                       generated, genLog, endLog, answeredAt, timeLeftLog>>

\* currentQuestion.options?.findIndex(opt => opt.startsWith(currentQuestion.answer))
\* compared with a numeric optionIndex: a card has no options (undefined), a
\* push question has no answer ("undefined" is no option's prefix: -1).
SelectionIsCorrect(q, optionIndex) ==
    /\ q.kind = "trivia"
    /\ optionIndex = FindIndex(Questions[q.idx].options, Questions[q.idx].answer)

\* currentQuestion?.answer
AnswerOf(q) ==
    IF q.kind = "trivia" THEN Questions[q.idx].answer[1] ELSE "undefined"

\* end_round without its duplicate guard.
RoundNeverEnded(room) == FALSE

\* The duplicate guard of end_round.
RoundAlreadyEnded(room) == room.roundEnded

\* room.scores after the scoring loop of end_round.
ScoredRound(room) ==
    LET sel == room.currentSelections
        q == room.currentQuestion
        old(p) == IF p \in DOMAIN room.scores THEN room.scores[p] ELSE 0
    IN  IF q.kind = "null" THEN room.scores
        ELSE [p \in (DOMAIN room.scores) \cup (DOMAIN sel) |->
                IF p \in DOMAIN sel
                THEN IF SelectionIsCorrect(q, sel[p].optionIndex)
                     THEN old(p) + calculatePointsFromTime(sel[p].timeTaken)
                     ELSE old(p)
                ELSE room.scores[p]]

ClientSelections(room) ==
    [p \in DOMAIN room.currentSelections |-> room.currentSelections[p].optionIndex]

\* event end_round (the two routes have the same code).
EndRound ==
    LET rs == EnsureRoom(rooms)
        room == rs[Channel]
    IN  /\ IF RoundAlreadyEnded(room)
           THEN /\ rooms' = rs
                /\ out' = [ op |-> "end_round", success |-> TRUE,
                            duplicate |-> TRUE,
                            selections |-> room.lastSelections,
                            scores |-> room.scores,
                            correctAnswer |-> room.lastCorrectAnswer ]
                /\ UNCHANGED endLog
           ELSE LET scores == ScoredRound(room)
                    response == [ op |-> "end_round", success |-> TRUE,
                                  duplicate |-> FALSE,
                                  selections |-> ClientSelections(room),
                                  scores |-> scores,
                                  correctAnswer |-> AnswerOf(room.currentQuestion) ]
                IN  /\ rooms' = [rs EXCEPT ![Channel] =
                            [room EXCEPT !.roundEnded = TRUE,
                                         !.scores = scores,
                                         !.lastSelections = ClientSelections(room),
                                         !.lastCorrectAnswer = AnswerOf(room.currentQuestion),
                                         !.currentSelections = EmptyMap]]
                    /\ out' = response
                    /\ endLog' = IF endLog.present THEN endLog
                                  ELSE [ present |-> TRUE,
                                         selections |-> response.selections,
                                         scores |-> response.scores,
                                         correctAnswer |-> response.correctAnswer ]
        /\ UNCHANGED <<resetTimer, now, pendingTimers, sockets, adapterRoom, followers,
                       generated, genLog, answeredAt, timeLeftLog>>

\* remainingTime of GET /api/game-state: MAX_TIME while the room has no
\* questionStartTime.
GameStateRemainingTime(room) ==
    IF room.questionStartTime # 0
    THEN Max(0, MAX_TIME - FloorSec(now - room.questionStartTime))
    ELSE MAX_TIME

\* GET /api/game-state/:roomId
GetGameState ==
    LET rs == EnsureRoom(rooms)
        room == rs[Channel]
    IN  /\ rooms' = rs
        /\ out' = IF room.currentQuestion.kind # "null"
                  THEN [ op |-> "game_state", success |-> TRUE,
                         question |-> room.currentQuestion,
                         timeLeft |-> GameStateRemainingTime(room),
                         showResult |-> (room.roundEnded \/ GameStateRemainingTime(room) <= 0),
                         gameState |-> room.gameState,
                         roundEnded |-> room.roundEnded ]
                  ELSE [ op |-> "game_state", success |-> TRUE,
                         question |-> NullQuestion,
                         timeLeft |-> MAX_TIME,
                         showResult |-> FALSE,
                         gameState |-> "waiting",
                         roundEnded |-> FALSE ]
        /\ UNCHANGED <<resetTimer, now, pendingTimers, sockets, adapterRoom, followers,
                       generated, genLog, endLog, answeredAt, timeLeftLog>>

\* ---------------------------------------------------------- push transport
\* A parked follower keeps the room object it closed over when the key is deleted.
Orphan(fs, room) ==
    [i \in 1..Len(fs) |-> IF fs[i].live THEN [live |-> FALSE, room |-> room] ELSE fs[i]]

\* Object.fromEntries(Object.entries(players).map(([id, p]) => [id, p.score || 0]))
ScoresOf(players) == [id \in DOMAIN players |-> players[id].score]

\* The roster of a room_state message.
RoomState(players, scores) == [type |-> "room_state", players |-> ScoresOf(players), scores |-> scores]

\* A connection is served in two steps, the middleware (io.use) and the
\* connection handler (io.on).  The library that runs the second after the
\* first is not part of the repository, so other handlers may run in between;
\* the connection handler's own room creation (the only assignment of a
\* non-null hostSocketId at creation) happens only if the room is deleted in
\* that gap.
\* The handshake inputs of io.use.  A token is missing ("none"), refused by
\* the identity provider ("rejected"), unverifiable because the request to
\* the provider failed ("unreachable"), or stands for the user it names; the
\* room key is missing ("none") or names the channel.
TokenInputs == {"none", "rejected", "unreachable"} \cup Users
ChannelInputs == {"none", Channel}

\* How io.use ends: "ok" for next(), otherwise the message of the Error.
AuthOutcome(token, channelId) ==
    IF token = "none" THEN "Missing token"
    ELSE IF channelId = "none" THEN "Missing voice channel ID"
    ELSE IF token = "rejected" THEN "Invalid Discord token"
    ELSE IF token = "unreachable" THEN "Auth error"
    ELSE "ok"

\* io.use with the room initialised before the checks.
RoomsAfterAuthEager(rs, outcome) ==
    IF Channel \in DOMAIN rs THEN rs ELSE Put(rs, Channel, NewRoom(NoSocket, FALSE))

\* rooms after io.use: the room is initialised after every check has passed.
RoomsAfterAuth(rs, outcome) ==
    IF outcome = "ok" /\ Channel \notin DOMAIN rs
    THEN Put(rs, Channel, NewRoom(NoSocket, FALSE))
    ELSE rs

\* io.use refusing the connection on socket s: next(new Error(..)).
Refuse(s, token, channelId) ==
    LET outcome == AuthOutcome(token, channelId)
    IN  /\ sockets[s].state = "idle"
        /\ \A r \in 1..(s - 1) : sockets[r].state # "idle"
        /\ outcome # "ok"
        /\ sockets' = [sockets EXCEPT ![s] = ClosedSocket]
        /\ rooms' = RoomsAfterAuth(rooms, outcome)
        /\ out' = [op |-> "auth_refused", socket |-> s, error |-> outcome, msgs |-> <<>>]
        /\ UNCHANGED <<resetTimer, now, pendingTimers, adapterRoom, followers,
                       generated, genLog, endLog, answeredAt, timeLeftLog>>

\* io.use: the identity check succeeded for token -> user on socket s.
Authenticate(s, user, reconnecting) ==
    /\ sockets[s].state = "idle"
    /\ \A r \in 1..(s - 1) : sockets[r].state # "idle"
    /\ sockets' = [sockets EXCEPT ![s] =
                      [state |-> "authed", user |-> user, reconnecting |-> reconnecting]]
    /\ rooms' = RoomsAfterAuth(rooms, AuthOutcome(user, Channel))
    /\ out' = [op |-> "authenticate", socket |-> s, msgs |-> <<>>]
    /\ UNCHANGED <<resetTimer, now, pendingTimers, adapterRoom, followers,
                   generated, genLog, endLog, answeredAt, timeLeftLog>>

\* The value a joining connection gives hostSocketId when it creates the room.
HostOfCreatedRoom(s) == s

\* io.on("connection")
Connection(s) ==
    LET user == sockets[s].user
        reconnected == /\ sockets[s].reconnecting
                       /\ RoomExists
                       /\ user \in DOMAIN Room.players
        snapshot == IF reconnected
                    THEN << [ type |-> "game_state",
                              currentQuestion |-> Room.currentQuestion,
                              selections |-> Room.selections,
                              scores |-> Room.scores,
                              gameState |-> Room.gameState ] >>
                    ELSE <<>>
        room0 == IF RoomExists THEN Room ELSE NewRoom(HostOfCreatedRoom(s), FALSE)
        score == IF user \in DOMAIN room0.players THEN room0.players[user].score ELSE 0
        players == Put(room0.players, user, [score |-> score, socketId |-> s])
        room1 == [room0 EXCEPT !.lastActive = now,
                               !.players = players,
                               !.scores = ScoresOf(players)]
    IN  /\ sockets[s].state = "authed"
        /\ sockets' = [sockets EXCEPT ![s] = [@ EXCEPT !.state = "connected",
                                                      !.reconnecting = FALSE]]
        /\ rooms' = Put(rooms, Channel, room1)
        /\ adapterRoom' = Append(adapterRoom, s)
        /\ out' = [ op |-> "connection", socket |-> s,
                    msgs |-> snapshot \o
                             << [ type |-> "you_joined", playerId |-> user,
                                  isHost |-> (room1.hostSocketId = s) ],
                                RoomState(room1.players, room1.scores) >> ]
        /\ UNCHANGED <<resetTimer, now, pendingTimers, followers, generated, genLog, endLog, answeredAt, timeLeftLog>>

\* pickRandomQuestion(room): correctIndex is resolved when the question is picked.
PickRandomQuestions ==
    { [ kind |-> "push", idx |-> i,
        correctIndex |-> FindIndex(Questions[i].options, Questions[i].answer),
        startTime |-> now, maxTime |-> MAX_TIME ] : i \in 1..Len(Questions) }

\* The handle of a round timer: the instant it is due.
TimerDue == now + MAX_TIME * 1000

\* room.gameState after a round has been resolved (the handlers do not assign it).
GameStateAfterRound(room) == room.gameState

\* The guards of start_question without the check of the round in progress.
StartQuestionByHost(s) ==
    /\ RoomExists
    /\ Room.hostSocketId = s

\* if (!room || room.hostSocketId !== socket.id) return;
\* if (room.gameState === "active") return;
StartQuestionAccepted(s) ==
    /\ RoomExists
    /\ Room.hostSocketId = s
    /\ Room.gameState # "active"

\* socket.on("start_question")
StartQuestion(s) ==
    /\ sockets[s].state = "connected"
    /\ IF ~StartQuestionAccepted(s)
       THEN /\ out' = [op |-> "ignored", socket |-> NoSocket, msgs |-> <<>>]
            /\ UNCHANGED <<rooms, pendingTimers, answeredAt>>
       ELSE \E q \in PickRandomQuestions :
            /\ rooms' = [rooms EXCEPT ![Channel] =
                            [Room EXCEPT !.currentQuestion = q,
                                         !.selections = EmptyMap,
                                         !.gameState = "active",
                                         !.lastActive = now,
                                         !.roundEnded = FALSE,
                                         !.timer = {TimerDue}]]
            /\ pendingTimers' = (pendingTimers \ Room.timer) \cup {TimerDue}
            /\ answeredAt' = EmptyMap
            /\ out' = [ op |-> "push_start_question", socket |-> s,
                        msgs |-> << [ type |-> "question_started", idx |-> q.idx,
                                      startTime |-> q.startTime, maxTime |-> q.maxTime ] >> ]
    /\ UNCHANGED <<resetTimer, now, sockets, adapterRoom, followers, generated, genLog, endLog,
                   timeLeftLog>>

\* Any recorded pick counted as a correct one.
PickIsMade(room, uid) == uid \in DOMAIN room.selections

\* pick === correct in computeScores: a question of the pull transport has no
\* correctIndex, so correct is undefined and equals the pick of whoever has none.
PickIsCorrect(room, uid) ==
    IF room.currentQuestion.kind = "push"
    THEN uid \in DOMAIN room.selections
         /\ room.selections[uid] = room.currentQuestion.correctIndex
    ELSE uid \notin DOMAIN room.selections

\* bonusFactor rounded down instead of up.
BonusFactorFloor(q, endTime) ==
    LET startTime == IF q.kind = "push" THEN q.startTime ELSE endTime
        maxTime == IF q.kind = "push" THEN q.maxTime ELSE MAX_TIME
        elapsedSec == Max(0, FloorSec(endTime - startTime))
        remaining == Max(0, maxTime - elapsedSec)
    IN  (remaining * 10) \div maxTime

\* bonusFactor of computeScores when it runs at endTime.
BonusFactor(q, endTime) ==
    LET startTime == IF q.kind = "push" THEN q.startTime ELSE endTime
        maxTime == IF q.kind = "push" THEN q.maxTime ELSE MAX_TIME
        elapsedSec == Max(0, FloorSec(endTime - startTime))
        remaining == Max(0, maxTime - elapsedSec)
    IN  Ceil(remaining * 10, maxTime)

\* room.players after computeScores(room) ran at endTime.
ComputeScoresAt(room, endTime) ==
    IF room.currentQuestion.kind = "null" THEN room.players
    ELSE [uid \in DOMAIN room.players |->
            IF PickIsCorrect(room, uid)
            THEN [room.players[uid] EXCEPT
                     !.score = @ + BonusFactor(room.currentQuestion, endTime)]
            ELSE room.players[uid]]

computeScores(room) == ComputeScoresAt(room, now)

\* correctIndex as show_result carries it: {} stands for undefined.
CorrectIndexOf(q) == IF q.kind = "push" THEN {q.correctIndex} ELSE {}

\* The scores settled and the timer dropped, the question left in place.
ResolvedKeepingQuestion(room) ==
    LET players == computeScores(room)
    IN  [room EXCEPT !.players = players,
                     !.scores = ScoresOf(players),
                     !.timer = {}]

\* The shared tail of the timer callback and of the early resolution.
Resolved(room) ==
    LET players == computeScores(room)
    IN  [room EXCEPT !.players = players,
                     !.scores = ScoresOf(players),
                     !.currentQuestion = NullQuestion,
                     !.selections = EmptyMap,
                     !.timer = {},
                     !.gameState = GameStateAfterRound(room)]

ResolutionMessages(room) ==
    LET players == computeScores(room)
    IN  << [ type |-> "show_result",
             correctIndex |-> CorrectIndexOf(room.currentQuestion),
             scores |-> ScoresOf(players),
             selections |-> room.selections ],
           RoomState(players, ScoresOf(players)) >>

\* The round timer's callback (it closes over the room object).
TimerFire ==
    \E h \in pendingTimers :
        /\ now >= h
        /\ pendingTimers' = pendingTimers \ {h}
        /\ IF RoomExists /\ Room.currentQuestion.kind # "null"
           THEN /\ rooms' = [rooms EXCEPT ![Channel] = Resolved(Room)]
                /\ out' = [op |-> "timer", socket |-> NoSocket, msgs |-> ResolutionMessages(Room)]
           ELSE \* room.currentQuestion.correctIndex throws on null
                /\ rooms' = rooms
                /\ out' = [op |-> "uncaught_exception", socket |-> NoSocket, msgs |-> <<>>]
        /\ UNCHANGED <<resetTimer, now, sockets, adapterRoom, followers,
                       generated, genLog, endLog, answeredAt, timeLeftLog>>

\* Time passing until a pending round timer is due.
ExpiryTick ==
    /\ \E h \in pendingTimers : h > now /\ now' = h
    /\ out' = [op |-> "tick"]
    /\ UNCHANGED <<resetTimer, rooms, pendingTimers, sockets, adapterRoom, followers,
                   generated, genLog, endLog, answeredAt, timeLeftLog>>

\* "if all players have answered => resolve early"
AllAnswered(room) == Cardinality(DOMAIN room.selections) >= Cardinality(DOMAIN room.players)

\* The double-answer check left out.
NeverAnswered(room, user) == FALSE

\* room.selections[user.id] !== undefined, for selections that are numbers.
AlreadyAnswered(room, user) == user \in DOMAIN room.selections

\* An early resolution that leaves the round timer armed.
TimersStillArmed(timers, room) == timers

\* if (room.timer) clearTimeout(room.timer), before the early resolution.
TimersAfterEarlyResolution(timers, room) == timers \ room.timer

\* socket.on("select_option")
PushSelectOption(s, optionIndex) ==
    LET user == sockets[s].user
        recorded == [Room EXCEPT !.selections = Put(Room.selections, user, optionIndex),
                                 !.lastActive = now]
        selected == [type |-> "player_selected", playerId |-> user, optionIndex |-> optionIndex]
    IN  /\ sockets[s].state = "connected"
        /\ IF \/ ~RoomExists
              \/ Room.currentQuestion.kind = "null"
              \/ Room.gameState # "active"
              \/ AlreadyAnswered(Room, user)
           THEN /\ out' = [op |-> "ignored", socket |-> NoSocket, msgs |-> <<>>]
                /\ UNCHANGED <<rooms, pendingTimers, answeredAt>>
           ELSE IF user \notin DOMAIN Room.players
           THEN \* room.players[user.id].name throws
                /\ rooms' = [rooms EXCEPT ![Channel] = recorded]
                /\ out' = [op |-> "uncaught_exception", socket |-> s, msgs |-> <<>>]
                /\ answeredAt' = Put(answeredAt, user, now)
                /\ UNCHANGED pendingTimers
           ELSE IF AllAnswered(recorded)
           THEN /\ rooms' = [rooms EXCEPT ![Channel] = Resolved(recorded)]
                /\ pendingTimers' = TimersAfterEarlyResolution(pendingTimers, Room)
                /\ answeredAt' = Put(answeredAt, user, now)
                /\ out' = [ op |-> "push_select_option", socket |-> s,
                            msgs |-> <<selected>> \o ResolutionMessages(recorded) ]
           ELSE /\ rooms' = [rooms EXCEPT ![Channel] = recorded]
                /\ answeredAt' = Put(answeredAt, user, now)
                /\ out' = [op |-> "push_select_option", socket |-> s, msgs |-> <<selected>>]
                /\ UNCHANGED pendingTimers
        /\ UNCHANGED <<resetTimer, now, sockets, adapterRoom, followers, generated, genLog, endLog,
                   timeLeftLog>>

\* socket.on("select_option") for an event sent without a payload: the
\* parameter pattern ({ optionIndex }) cannot be bound to undefined, the
\* TypeError is raised before the handler's first statement and nothing
\* catches it.
PushSelectNoPayload(s) ==
    /\ sockets[s].state = "connected"
    /\ out' = [op |-> "uncaught_exception", socket |-> s, msgs |-> <<>>]
    /\ UNCHANGED <<rooms, pendingTimers, answeredAt, resetTimer, now, sockets,
                   adapterRoom, followers, generated, genLog, endLog, timeLeftLog>>

\* Array.from(io.sockets.adapter.rooms.get(channelId) ?? [])[0], or null
FirstSocket(members) == IF members = <<>> THEN NoSocket ELSE Head(members)

\* The host after the host's own disconnect.
NextHost(members) == FirstSocket(members)

\* A room deleted with its round timer left armed.
TimersKept(timers, room) == timers

\* if (room.timer) clearTimeout(room.timer), before the room is deleted.
TimersAfterDelete(timers, room) == timers \ room.timer

\* socket.on("disconnect"): the socket has left the adapter room already.
Disconnect(s) ==
    LET user == sockets[s].user
        members == SelectSeq(adapterRoom, LAMBDA x : x # s)
        wasHost == RoomExists /\ Room.hostSocketId = s
        host == IF wasHost THEN NextHost(members) ELSE Room.hostSocketId
        room1 == [Room EXCEPT !.lastActive = now,
                              !.players = Remove(Room.players, user),
                              !.scores = Remove(Room.scores, user),
                              !.hostSocketId = host]
        notify == IF wasHost /\ host # NoSocket
                  THEN << [ type |-> "you_joined", playerId |-> sockets[host].user,
                            isHost |-> TRUE ] >>
                  ELSE <<>>
    IN  /\ sockets[s].state = "connected"
        /\ sockets' = [sockets EXCEPT ![s] = ClosedSocket]
        /\ adapterRoom' = members
        /\ IF ~RoomExists
           THEN /\ out' = [op |-> "disconnect", socket |-> s, wasHost |-> FALSE, msgs |-> <<>>]
                /\ UNCHANGED <<rooms, pendingTimers, followers>>
           ELSE IF DOMAIN room1.players = {}
           THEN /\ rooms' = Remove(rooms, Channel)
                /\ pendingTimers' = TimersAfterDelete(pendingTimers, Room)
                /\ followers' = Orphan(followers, room1)
                /\ out' = [op |-> "disconnect", socket |-> s, wasHost |-> wasHost, msgs |-> notify]
           ELSE /\ rooms' = [rooms EXCEPT ![Channel] = room1]
                /\ out' = [ op |-> "disconnect", socket |-> s, wasHost |-> wasHost,
                            msgs |-> notify \o <<RoomState(room1.players, room1.scores)>> ]
                /\ UNCHANGED <<pendingTimers, followers>>
        /\ UNCHANGED <<resetTimer, now, generated, genLog, endLog, answeredAt, timeLeftLog>>

\* -------------------------------------------------------- inactivity sweep
\* A period without any event that is longer than the inactivity threshold.
IdleStep == ROOM_INACTIVE_THRESHOLD + 1000

LastClockValue == CHOOSE t \in ClockValues : \A u \in ClockValues : t >= u

IdleTick ==
    /\ now + IdleStep <= LastClockValue + MaxIdlePeriods * IdleStep
    /\ now' = now + IdleStep
    /\ out' = [op |-> "tick"]
    /\ UNCHANGED <<resetTimer, rooms, pendingTimers, sockets, adapterRoom, followers,
                   generated, genLog, endLog, answeredAt, timeLeftLog>>

\* A room counted as inactive from the threshold on.
InactiveAtThreshold(room) == now - room.lastActive >= ROOM_INACTIVE_THRESHOLD

\* timeSinceLastActive > ROOM_INACTIVE_THRESHOLD
Inactive(room) == now - room.lastActive > ROOM_INACTIVE_THRESHOLD

\* The rooms the sweep's forEach finds inactive.
InactiveRooms == {c \in DOMAIN rooms : Inactive(rooms[c])}

\* clearTimeout(room.timer) for each room of channels.
RECURSIVE TimersAfterSweep(_, _)
TimersAfterSweep(timers, channels) ==
    IF channels = {} THEN timers
    ELSE LET c == CHOOSE c \in channels : TRUE
         IN  TimersAfterSweep(TimersAfterDelete(timers, rooms[c]), channels \ {c})

\* cleanupInactiveRooms(), the callback of setInterval(.., ROOM_CLEANUP_INTERVAL)
CleanupInactiveRooms ==
    LET gone == InactiveRooms
    IN  /\ pendingTimers' = TimersAfterSweep(pendingTimers, gone)
        /\ rooms' = IF gone = {} THEN rooms ELSE [c \in DOMAIN rooms \ gone |-> rooms[c]]
        /\ followers' = IF Channel \in gone THEN Orphan(followers, Room) ELSE followers
        /\ out' = [ op |-> "cleanup", deleted |-> (gone # {}), removed |-> gone,
                    cleared |-> UNION {rooms[c].timer : c \in gone} ]
        /\ UNCHANGED <<resetTimer, now, sockets, adapterRoom, generated, genLog, endLog,
                       answeredAt, timeLeftLog>>

\* A second room key, used by requests of the pull transport only.
OtherChannel == "c2"

\* POST /api/game-event, event select_option, for the room key channel.
SelectOptionIn(channel, playerId, optionIndex, timeTaken) ==
    LET rs == IF channel \in DOMAIN rooms THEN rooms
              ELSE Put(rooms, channel, NewRoom(NoSocket, TRUE))
        room == rs[channel]
        isChange == /\ playerId \in DOMAIN room.currentSelections
                    /\ room.currentSelections[playerId].optionIndex # optionIndex
    IN  /\ rooms' = [rs EXCEPT ![channel] =
                        [room EXCEPT !.currentSelections =
                                        RecordSelection(room.currentSelections, playerId,
                                            [optionIndex |-> optionIndex, timeTaken |-> timeTaken]),
                                     !.lastActive = now]]
        /\ out' = [op |-> "select_option", success |-> TRUE, changed |-> isChange]
        /\ UNCHANGED <<resetTimer, now, pendingTimers, sockets, adapterRoom, followers,
                       generated, genLog, endLog, answeredAt, timeLeftLog>>

\* The instants at which a room's inactivity is exactly the threshold, and the
\* millisecond after.
ThresholdInstants ==
    UNION { { rooms[c].lastActive + ROOM_INACTIVE_THRESHOLD,
              rooms[c].lastActive + ROOM_INACTIVE_THRESHOLD + 1 } : c \in DOMAIN rooms }

\* Time passing without any event until one of these instants.
ThresholdTick ==
    /\ \E t \in ThresholdInstants :
          /\ t > now
          /\ t <= LastClockValue + MaxIdlePeriods * IdleStep
          /\ now' = t
    /\ out' = [op |-> "tick"]
    /\ UNCHANGED <<resetTimer, rooms, pendingTimers, sockets, adapterRoom, followers,
                   generated, genLog, endLog, answeredAt, timeLeftLog>>

\* -------------------------------------------------------------- daily reset
\* The entries handed to StorageService.archiveLeaderboard: one per player,
\* with the player's score (name and avatar are not modelled).
ArchiveEntries(players) == ScoresOf(players)

\* previousScores computed after the scores were set to 0.
PreviousScoresAfterReset(players) == [id \in DOMAIN players |-> 0]

\* archive.channels[channelId].players, computed before the scores are reset.
PreviousScores(players) == ScoresOf(players)

\* room.players after  room.players[playerId].score = 0  for every player.
ZeroedPlayers(players) == [id \in DOMAIN players |-> [players[id] EXCEPT !.score = 0]]

\* resetLeaderboards().  Its one await sits between the archiving loop and the
\* reset loop; with one room nothing of the program runs there.
ResetLeaderboards ==
    /\ IF RoomExists
       THEN LET players == ZeroedPlayers(Room.players)
            IN  /\ rooms' = [rooms EXCEPT ![Channel] =
                                [Room EXCEPT !.players = players, !.scores = EmptyMap]]
                /\ out' = [ op |-> "reset", date |-> DayOf(now),
                            archived |-> ArchiveEntries(Room.players),
                            msgs |-> << [ type |-> "leaderboard_reset",
                                          previousScores |-> PreviousScores(Room.players) ],
                                        RoomState(players, EmptyMap) >> ]
       ELSE /\ rooms' = rooms
            /\ out' = [ op |-> "reset", date |-> DayOf(now),
                        archived |-> EmptyMap, msgs |-> <<>> ]
    /\ UNCHANGED <<now, pendingTimers, sockets, adapterRoom, followers,
                   generated, genLog, endLog, answeredAt, timeLeftLog>>

\* The reset run at some moment of the day, the scheduler left alone.
ResetRuns == ResetLeaderboards /\ UNCHANGED resetTimer

\* The callback of the timeout armed by scheduleNextReset: the timeout is
\* spent, the reset runs and the next one is scheduled.
ResetTimerFire ==
    \E due \in resetTimer :
        /\ now >= due
        /\ ResetLeaderboards
        /\ resetTimer' = ScheduleNextReset(resetTimer \ {due}, now)

\* Wall-clock time passing on the scale of days, ClockStepHours at a time,
\* up to the reset of day MaxDays.  A timeout that is due runs before the
\* clock moves on: the callback is late by less than one step.
DayTick ==
    /\ \A due \in resetTimer : due > now
    /\ DayOf(now + ClockStepHours * HourMs) <= MaxDays
    /\ now' = now + ClockStepHours * HourMs
    /\ out' = [op |-> "tick"]
    /\ UNCHANGED <<resetTimer, rooms, pendingTimers, sockets, adapterRoom, followers,
                   generated, genLog, endLog, answeredAt, timeLeftLog>>

\* ------------------------------------------------------------ specifications
PullStart(maxRounds, seenValues) ==
    \/ \E forceNew \in BOOLEAN, seen \in seenValues :
          ApiStartQuestion(forceNew, seen, maxRounds)
    \/ \E forceNew \in BOOLEAN, seen \in seenValues :
          FallbackStartQuestion(forceNew, seen, maxRounds)
    \/ FollowerTimeout

PullSelect(named) ==
    \E p \in Users, i \in SelectInputs : SelectOption(p, i.optionIndex, i.timeTaken, named)

\* The pull transport's rounds: every request is answered before the next is sent.
ScoringNext ==
    \/ PullStart(MaxScoredRounds, {generated})
    \/ PullSelect(FALSE)
    \/ EndRound

SpecScoring == Init /\ [][ScoringNext]_vars

\* The pull transport's question synchronisation: racing start_question
\* requests, the clock and the end of the round.
SyncNext ==
    \/ PullStart(MaxRounds, 0..generated)
    \/ EndRound
    \/ Tick

SpecSync == Init /\ [][SyncNext]_vars

PushNext ==
    \/ \E s \in 1..NumSockets, u \in Users, r \in BOOLEAN : Authenticate(s, u, r)
    \/ \E s \in 1..NumSockets : Connection(s)
    \/ \E s \in 1..NumSockets : StartQuestion(s)
    \/ \E s \in 1..NumSockets, o \in OptionInputs : PushSelectOption(s, o)
    \/ \E s \in 1..NumSockets : Disconnect(s)
    \/ TimerFire
    \/ Tick

\* The push transport alone.
SpecPush == Init /\ [][PushNext]_vars

\* Pull rounds on a room whose players join and leave over the push transport.
MixedNext ==
    \/ ApiStartQuestion(FALSE, generated, MaxScoredRounds)
    \/ \E p \in Users : SelectOption(p, 1, 2, FALSE)
    \/ EndRound
    \/ \E s \in 1..NumSockets, u \in Users : Authenticate(s, u, FALSE)
    \/ \E s \in 1..NumSockets : Connection(s)
    \/ \E s \in 1..NumSockets : Disconnect(s)

SpecMixed == Init /\ [][MixedNext]_vars

\* Questions of both transports on one room: players join and leave, the host
\* starts push rounds and players answer them, requests start and end pull
\* rounds.
BothNext ==
    \/ \E s \in 1..NumSockets, u \in Users : Authenticate(s, u, FALSE)
    \/ \E s \in 1..NumSockets : Connection(s)
    \/ \E s \in 1..NumSockets : Disconnect(s)
    \/ \E s \in 1..NumSockets : StartQuestion(s)
    \/ \E s \in 1..NumSockets, o \in OptionInputs : PushSelectOption(s, o)
    \/ \E forceNew \in BOOLEAN : ApiStartQuestion(forceNew, generated, MaxScoredRounds)
    \/ EndRound

SpecBoth == Init /\ [][BothNext]_vars

\* Push rounds and the daily reset, which may fall into a round in progress.
ResetNext ==
    \/ \E s \in 1..NumSockets, u \in Users : Authenticate(s, u, FALSE)
    \/ \E s \in 1..NumSockets : Connection(s)
    \/ \E s \in 1..NumSockets : Disconnect(s)
    \/ \E s \in 1..NumSockets : StartQuestion(s)
    \/ \E s \in 1..NumSockets, o \in OptionInputs : PushSelectOption(s, o)
    \/ ResetRuns

SpecReset == Init /\ [][ResetNext]_vars

\* The daily scheduler over MaxDays days, with players joining, playing push
\* rounds and leaving in between.  Node runs the callback of a timeout once
\* it is due, and time passes: both steps are weakly fair.
DailyNext ==
    \/ \E s \in 1..NumSockets, u \in Users : Authenticate(s, u, FALSE)
    \/ \E s \in 1..NumSockets : Connection(s)
    \/ \E s \in 1..NumSockets : Disconnect(s)
    \/ \E s \in 1..NumSockets : StartQuestion(s)
    \/ \E s \in 1..NumSockets, o \in OptionInputs : PushSelectOption(s, o)
    \/ ResetTimerFire
    \/ DayTick

SpecDaily ==
    Init /\ [][DailyNext]_vars /\ WF_vars(ResetTimerFire) /\ WF_vars(DayTick)

\* Connections accepted and refused, joins and leaves, and the pull transport
\* creating the room and starting a question.
AuthNext ==
    \/ \E s \in 1..NumSockets, u \in Users : Authenticate(s, u, FALSE)
    \/ \E s \in 1..NumSockets, token \in TokenInputs, channelId \in ChannelInputs :
          Refuse(s, token, channelId)
    \/ \E s \in 1..NumSockets : Connection(s)
    \/ \E s \in 1..NumSockets : Disconnect(s)
    \/ ApiStartQuestion(FALSE, generated, MaxScoredRounds)

SpecAuth == Init /\ [][AuthNext]_vars

\* The user behind each connection in the answer-change scenario: the last
\* connection is B's, the others are A's.
IdentityOf(s) == IF s = NumSockets THEN "B" ELSE "A"

\* The connection that leaves in the answer-change scenario.
FirstConnection == CHOOSE s \in 1..NumSockets : \A r \in 1..NumSockets : s <= r

\* Answers given and changed on both transports: push rounds with two
\* players, and a pull round in which A selects and selects again.  The
\* first connection may leave, which is what lets a later one become host.
AnswerNext ==
    \/ \E s \in 1..NumSockets : Authenticate(s, IdentityOf(s), FALSE)
    \/ \E s \in 1..NumSockets : Connection(s)
    \/ Disconnect(FirstConnection)
    \/ \E s \in 1..NumSockets : StartQuestion(s)
    \/ \E s \in 1..NumSockets, o \in OptionInputs : PushSelectOption(s, o)
    \/ ApiStartQuestion(FALSE, generated, MaxScoredRounds)
    \/ \E o \in OptionInputs : SelectOption("A", o, 2, FALSE)
    \/ EndRound

SpecAnswer == Init /\ [][AnswerNext]_vars

\* The HTTP routes, on a room created by either transport: the socket
\* middleware creates it without playerNames, the routes with it.
EnvelopeNext ==
    \/ \E s \in 1..NumSockets, u \in Users : Authenticate(s, u, FALSE)
    \/ \E forceNew \in BOOLEAN : ApiStartQuestion(forceNew, generated, MaxScoredRounds)
    \/ \E forceNew \in BOOLEAN : FallbackStartQuestion(forceNew, generated, MaxScoredRounds)
    \/ FollowerTimeout
    \/ \E p \in Users, named \in BOOLEAN : SelectOption(p, 1, 2, named)
    \/ EndRound
    \/ GetGameState

SpecEnvelope == Init /\ [][EnvelopeNext]_vars

\* Every inbound event of the push transport, well-formed or not, and the
\* round timer.
EventsNext ==
    \/ PushNext
    \/ \E s \in 1..NumSockets : PushSelectNoPayload(s)

SpecEvents == Init /\ [][EventsNext]_vars

\* The push transport with the inactivity sweep: rounds, their timers, joins
\* and leaves, idle periods and the sweep at any moment.
TimersNext ==
    \/ PushNext
    \/ IdleTick
    \/ CleanupInactiveRooms

SpecTimers == Init /\ [][TimersNext]_vars

\* Push rounds under the passing of time: a pending round timer becomes due,
\* and Node runs the callback of a due timer; both steps are weakly fair.
ExpiryNext ==
    \/ \E s \in 1..NumSockets, u \in Users : Authenticate(s, u, FALSE)
    \/ \E s \in 1..NumSockets : Connection(s)
    \/ \E s \in 1..NumSockets : Disconnect(s)
    \/ \E s \in 1..NumSockets : StartQuestion(s)
    \/ \E s \in 1..NumSockets, o \in OptionInputs : PushSelectOption(s, o)
    \/ TimerFire
    \/ ExpiryTick

SpecExpiry ==
    Init /\ [][ExpiryNext]_vars /\ WF_vars(TimerFire) /\ WF_vars(ExpiryTick)

\* The inactivity sweep over two rooms: the room of the push transport, with
\* its players, rounds and timer, and a second room that pull requests create
\* and touch; time passes to the instants around the threshold.
SweepNext ==
    \/ \E s \in 1..NumSockets : Authenticate(s, IdentityOf(s), FALSE)
    \/ \E s \in 1..NumSockets : Connection(s)
    \/ \E s \in 1..NumSockets : Disconnect(s)
    \/ \E s \in 1..NumSockets : StartQuestion(s)
    \/ TimerFire
    \/ Tick
    \/ ThresholdTick
    \/ SelectOptionIn(OtherChannel, "A", 1, 2)
    \/ CleanupInactiveRooms

SpecSweep == Init /\ [][SweepNext]_vars

\* Rounds of both transports on one room under the passing of time: push
\* rounds with their timer, and pull requests that start a question (also
\* over a push round in progress), record selections and end the round.
CrossNext ==
    \/ \E s \in 1..NumSockets : Authenticate(s, IdentityOf(s), FALSE)
    \/ \E s \in 1..NumSockets : Connection(s)
    \/ Disconnect(FirstConnection)
    \/ \E s \in 1..NumSockets : StartQuestion(s)
    \/ \E s \in 1..NumSockets : PushSelectOption(s, 1)
    \/ TimerFire
    \/ ExpiryTick
    \/ ApiStartQuestion(TRUE, generated, MaxScoredRounds)
    \/ SelectOption("A", 1, 2, FALSE)
    \/ EndRound

SpecCross == Init /\ [][CrossNext]_vars

\* The connections that take part where every kind of event interleaves.
NumPlayingSockets == NumSockets - 1

\* Two identities: A on the first connection, B on the others.
IdentityOfTwo(s) == IF s = FirstConnection THEN "A" ELSE "B"

\* The round timer among everything that touches a room: push rounds and
\* answers, joins and leaves, pull requests that replace the question and end
\* the round, the inactivity sweep after an idle period and the daily reset.
PendingNext ==
    \/ \E s \in 1..NumPlayingSockets : Authenticate(s, IdentityOfTwo(s), FALSE)
    \/ \E s \in 1..NumPlayingSockets : Connection(s)
    \/ \E s \in 1..NumPlayingSockets : Disconnect(s)
    \/ \E s \in 1..NumPlayingSockets : StartQuestion(s)
    \/ \E s \in 1..NumPlayingSockets : PushSelectOption(s, 1)
    \/ TimerFire
    \/ ExpiryTick
    \/ ApiStartQuestion(TRUE, generated, MaxScoredRounds)
    \/ EndRound
    \/ IdleTick
    \/ CleanupInactiveRooms
    \/ ResetRuns

SpecPending == Init /\ [][PendingNext]_vars

\* calculatePointsFromTime on its own: two values of timeTaken, in whole
\* seconds from below zero to beyond MAX_TIME or missing, and their points.
\* In whole seconds MAX_POINTS * x^2 is never half-way between two integers,
\* so Math.round of the double and of the exact value agree.
TimeInputs ==
    {[present |-> TRUE, value |-> v] : v \in -1..MaxTimeTaken}
       \cup {[present |-> FALSE, value |-> 0]}

PointsInit ==
    /\ rooms = EmptyMap
    /\ now = T0
    /\ pendingTimers = {}
    /\ sockets = [s \in 1..NumSockets |-> IdleSocket]
    /\ adapterRoom = <<>>
    /\ followers = <<>>
    /\ \E a \in TimeInputs, b \in TimeInputs : out = [op |-> "inputs", a |-> a, b |-> b]
    /\ generated = 0
    /\ genLog = <<>>
    /\ endLog = NoEndLog
    /\ answeredAt = EmptyMap
    /\ timeLeftLog = MAX_TIME
    /\ resetTimer = ScheduleNextReset({}, now)

Calculate ==
    /\ out.op = "inputs"
    /\ out' = [ op |-> "points", a |-> out.a, b |-> out.b,
                pa |-> PointsOfInput(out.a), pb |-> PointsOfInput(out.b) ]
    /\ UNCHANGED <<rooms, now, pendingTimers, sockets, adapterRoom, followers,
                   generated, genLog, endLog, answeredAt, timeLeftLog, resetTimer>>

SpecPoints == PointsInit /\ [][Calculate]_vars

\* Three identities, one per connection: A on the first connection, C on the
\* last, B in between.
IdentityOfThree(s) ==
    IF s = FirstConnection THEN "A" ELSE IF s = NumSockets THEN "C" ELSE "B"

\* The process is running: no handler has ended in an uncaught exception.
Running == out.op # "uncaught_exception"

\* Push rounds with players of three identities joining and leaving while a
\* round is active; the inactivity sweep may remove the room.  Nothing
\* happens after an uncaught exception.
RosterNext ==
    \/ \E s \in 1..NumSockets : Running /\ Authenticate(s, IdentityOfThree(s), FALSE)
    \/ \E s \in 1..NumSockets : Running /\ Connection(s)
    \/ \E s \in 1..NumSockets : Running /\ Disconnect(s)
    \/ \E s \in 1..NumSockets : Running /\ StartQuestion(s)
    \/ \E s \in 1..NumSockets, o \in OptionInputs : Running /\ PushSelectOption(s, o)
    \/ Running /\ IdleTick
    \/ Running /\ CleanupInactiveRooms

SpecRoster == Init /\ [][RosterNext]_vars

\* ------------------------------------------------------------------ claims
\* room.scores[p] || 0 in the room map rs.
ScoreIn(rs, p) ==
    IF Channel \in DOMAIN rs /\ p \in DOMAIN rs[Channel].scores
    THEN rs[Channel].scores[p]
    ELSE 0

\* The points the first end_round of a round owes player p: the time-curve
\* points of the selection recorded at that moment, if it is the correct one.
PointsOwed(p) ==
    IF /\ RoomExists
       /\ p \in DOMAIN Room.currentSelections
       /\ SelectionIsCorrect(Room.currentQuestion, Room.currentSelections[p].optionIndex)
    THEN calculatePointsFromTime(Room.currentSelections[p].timeTaken)
    ELSE 0

\* C1: on the pull transport a player's score changes only in the step of the
\* first end_round of a round, and then by exactly the time-curve points of the
\* selection recorded at that moment (nothing for a wrong or missing one);
\* repeated end_round calls and late select_option calls never add points.
C1_AtMostOnceScoring ==
    [][\A p \in Users :
          ScoreIn(rooms', p) =
             IF out'.op = "end_round" /\ ~endLog.present
             THEN ScoreIn(rooms, p) + PointsOwed(p)
             ELSE ScoreIn(rooms, p)]_vars

\* A repeated end_round answered from the cache although a scored player has
\* selected again after the round ended.
C1_Witness ==
    /\ out.op = "end_round"
    /\ out.duplicate
    /\ \E p \in DOMAIN Room.currentSelections :
          /\ SelectionIsCorrect(Room.currentQuestion, Room.currentSelections[p].optionIndex)
          /\ ScoreIn(rooms, p) > 0

\* C2: every end_round answered after the first one of a round, and before a
\* new question is generated, carries the selections, scores and correctAnswer
\* of the first one, whatever was processed for the room in between.
C2_EndRoundIdempotent ==
    (out.op = "end_round" /\ endLog.present /\ Room.currentQuestion.kind # "null") =>
        /\ out.selections = endLog.selections
        /\ out.scores = endLog.scores
        /\ out.correctAnswer = endLog.correctAnswer

\* C3: a pull start_question without forceNew on a room that has a current
\* question answers with that question, leaves currentQuestion and
\* questionStartTime as they were and generates nothing; its timeLeft is
\* max(0, 15 - whole seconds since questionStartTime), which is never more than
\* any timeLeft answered earlier for the same question.
C3_Convergence ==
    [][(/\ out'.op = "start_question"
        /\ ~out'.forceNew
        /\ RoomExists
        /\ Room.currentQuestion.kind # "null")
       => (/\ out'.question = Room.currentQuestion
           /\ rooms'[Channel].currentQuestion = Room.currentQuestion
           /\ rooms'[Channel].questionStartTime = Room.questionStartTime
           /\ generated' = generated
           /\ out'.timeLeft =
                 Max(0, MAX_TIME - ((now - Room.questionStartTime) \div 1000))
           /\ out'.timeLeft <= timeLeftLog)]_vars

\* A start_question without forceNew answered with the existing question after
\* part of its time has run.
C3_Witness ==
    /\ out.op = "start_question"
    /\ ~out.forceNew
    /\ ~out.generated
    /\ out.question = Room.currentQuestion
    /\ out.timeLeft > 0
    /\ out.timeLeft < MAX_TIME

\* C4: of the pull start_question requests sent for the same round of a room
\* at most one generates a question.
C4_OneGenerationPerRound ==
    \A i, j \in 1..Len(genLog) : i # j => genLog[i] # genLog[j]

\* The connections of the players in the room.
PlayerSockets(room) == {room.players[p].socketId : p \in DOMAIN room.players}

\* C5: whenever the room has a player, hostSocketId is the connection of
\* exactly one player in the room.
C5_HostInvariant ==
    (RoomExists /\ DOMAIN Room.players # {}) =>
        Cardinality({p \in DOMAIN Room.players :
                        Room.players[p].socketId = Room.hostSocketId}) = 1

\* The you_joined message among msgs.
YouJoined(msgs) == msgs[CHOOSE i \in 1..Len(msgs) : msgs[i].type = "you_joined"]

\* C6: a connection that joins a room without players becomes its host and
\* its you_joined message says isHost = true.
C6_FirstJoinerIsHost ==
    (/\ out.op = "connection"
     /\ adapterRoom = <<out.socket>>
     /\ DOMAIN Room.players = {sockets[out.socket].user})
    => (/\ Room.hostSocketId = out.socket
        /\ YouJoined(out.msgs).isHost)

\* C7: after the host's disconnect with a player remaining, hostSocketId is
\* the connection of a player in the room, and while no round is active that
\* connection's start_question is accepted.
C7_HostMigration ==
    (/\ out.op = "disconnect"
     /\ out.wasHost
     /\ RoomExists
     /\ DOMAIN Room.players # {})
    => (/\ Room.hostSocketId \in PlayerSockets(Room)
        /\ Room.currentQuestion.kind = "null" => StartQuestionAccepted(Room.hostSocketId))

\* The selections, correctIndex and scores of a show_result message.
ShowResult(msgs) == msgs[CHOOSE i \in 1..Len(msgs) : msgs[i].type = "show_result"]
HasShowResult(msgs) == \E i \in 1..Len(msgs) : msgs[i].type = "show_result"

\* What the round's timer announces when it fires on the room: it runs when
\* the round's time is over.
TimerOutcome(room) ==
    LET due == room.currentQuestion.startTime + room.currentQuestion.maxTime * 1000
    IN  [ correctIndex |-> CorrectIndexOf(room.currentQuestion),
          scores |-> ScoresOf(ComputeScoresAt(room, due)) ]

\* C8: a round resolved early announces the correctIndex and the scores that
\* the timer's expiry would have announced for the same selections.
C8_EarlyEqualsExpiry ==
    [][(out'.op = "push_select_option" /\ HasShowResult(out'.msgs)) =>
          LET result == ShowResult(out'.msgs)
              outcome == TimerOutcome([Room EXCEPT !.selections = result.selections])
          IN  /\ result.correctIndex = outcome.correctIndex
              /\ result.scores = outcome.scores]_vars

\* The scenario of C9 up to B's answer: A is host, both have no points, A has
\* answered correctly 2 seconds after the start and B answers correctly 10
\* seconds after it.
C9_Scenario ==
    /\ RoomExists
    /\ Room.currentQuestion.kind = "push"
    /\ DOMAIN Room.players = {"A", "B"}
    /\ Room.players["A"].score = 0
    /\ Room.players["B"].score = 0
    /\ Room.players["A"].socketId = Room.hostSocketId
    /\ Room.selections = Put(EmptyMap, "A", Room.currentQuestion.correctIndex)
    /\ answeredAt = Put(EmptyMap, "A", Room.currentQuestion.startTime + 2000)
    /\ now = Room.currentQuestion.startTime + 10000
    /\ out'.op = "push_select_option"
    /\ out'.msgs[1].playerId = "B"
    /\ out'.msgs[1].optionIndex = Room.currentQuestion.correctIndex

\* The round is resolved in this step and leaves A with a points and B with b.
C9_ResolvedWith(a, b) ==
    LET roster == Put(Put(EmptyMap, "A", a), "B", b)
    IN  /\ HasShowResult(out'.msgs)
        /\ rooms'[Channel].currentQuestion.kind = "null"
        /\ ScoresOf(rooms'[Channel].players) = roster
        /\ out'.msgs[Len(out'.msgs)].type = "room_state"
        /\ out'.msgs[Len(out'.msgs)].players = roster

\* C9 as stated: the scenario ends with A at 113 and B at 17.
C9_TimeCurveScores ==
    [][C9_Scenario => C9_ResolvedWith(113, 17)]_vars

\* C9: the scenario resolves at once and gives both players the bonus factor
\* of the moment of resolution, ceil((5 / 15) * 10) = 4, which the roster
\* sent after the round shows.
C9_BonusFactorScores ==
    [][C9_Scenario => C9_ResolvedWith(4, 4)]_vars

\* The scenario has been played: A answered at 2 s, B at 10 s, the roster
\* follows the round's result.
C9_Witness ==
    /\ out.op = "push_select_option"
    /\ HasShowResult(out.msgs)
    /\ ShowResult(out.msgs).selections \in [{"A", "B"} -> OptionInputs]
    /\ answeredAt = Put(Put(EmptyMap, "A", T0 + 2000), "B", T0 + 10000)
    /\ DOMAIN Room.players = {"A", "B"}
    /\ Room.players["A"].socketId = Room.hostSocketId
    /\ out.msgs[Len(out.msgs)].players = Put(Put(EmptyMap, "A", 4), "B", 4)

\* C10: a resolved round leaves the room waiting, without a question.
C10_BackToWaiting ==
    (out.op \in {"timer", "push_select_option"} /\ HasShowResult(out.msgs)) =>
        /\ Room.gameState = "waiting"
        /\ Room.currentQuestion.kind = "null"

\* C11: once an event that touches scores has been processed, the score view
\* has, for every player of the room, that player's cumulative score.
C11_ScoreView ==
    (/\ RoomExists
     /\ out.op \in {"end_round", "connection", "disconnect", "timer",
                    "push_select_option", "reset"})
    => \A id \in DOMAIN Room.players :
          /\ id \in DOMAIN Room.scores
          /\ Room.scores[id] = Room.players[id].score

\* C12: a room that has a current question is in the active state of the
\* transport that set the question: 'active' for a push question, 'playing'
\* for a pull question; it is never 'waiting'.
C12_QuestionImpliesActive ==
    (RoomExists /\ Room.currentQuestion.kind # "null") =>
        Room.gameState = IF Room.currentQuestion.kind = "push" THEN "active" ELSE "playing"

\* A pull question replaced a push round's state, and a push question a pull
\* round's: here the host has started a push question on a room whose pull
\* round was ended.
C12_Witness ==
    /\ RoomExists
    /\ Room.currentQuestion.kind = "push"
    /\ Room.gameState = "active"
    /\ generated > 0
    /\ endLog.present

\* C13: after a daily reset every player of the room has score 0 and the
\* score view shows 0 for every player.
C13_ResetZeroes ==
    (out.op = "reset" /\ RoomExists) =>
        \A id \in DOMAIN Room.players :
            /\ Room.players[id].score = 0
            /\ id \in DOMAIN Room.scores
            /\ Room.scores[id] = 0

\* C14: a daily reset hands the archive one entry per player of the room with
\* the score the player had before the reset, and leaderboard_reset carries
\* the same scores.
C14_ArchiveBeforeReset ==
    [][(out'.op = "reset" /\ RoomExists) =>
          LET before == [id \in DOMAIN Room.players |-> Room.players[id].score]
          IN  /\ out'.archived = before
              /\ out'.msgs[1].type = "leaderboard_reset"
              /\ out'.msgs[1].previousScores = before]_vars

\* A reset that archived a player's points and left the player with none.
C14_Witness ==
    /\ out.op = "reset"
    /\ \E id \in DOMAIN out.archived :
          /\ out.archived[id] > 0
          /\ Room.players[id].score = 0

\* C15: at every moment exactly one daily reset is pending; the firing of the
\* timeout runs the reset once and schedules the next reset for the start of
\* the following day; and every day gets its reset: the reset of each of the
\* days 1..MaxDays eventually runs, none is skipped.
C15_DailyResetRecurs ==
    /\ [](Cardinality(resetTimer) = 1)
    /\ [][ resetTimer' # resetTimer =>
              /\ out'.op = "reset"
              /\ out'.date = DayOf(now)
              /\ \A due \in resetTimer : DayOf(due) = DayOf(now)
              /\ resetTimer' = {DateAt(DayOf(now) + 1, 0, 0)} ]_vars
    /\ [][ (out'.op = "reset") => resetTimer' # resetTimer ]_vars
    /\ \A d \in 1..MaxDays : <>(out.op = "reset" /\ out.date = d)

\* The reset of the second day ran with a player in the room, and the reset
\* of the day after is pending.
C15_Witness ==
    /\ out.op = "reset"
    /\ out.date = 2
    /\ DOMAIN out.archived # {}
    /\ resetTimer = {DateAt(3, 0, 0)}

\* C16: a connection refused by the authentication step (missing token,
\* missing room key, token rejected or not verifiable) gets an error and
\* leaves the Room Store exactly as it was; in particular no room is created
\* when the room key does not exist yet.  Nobody is joined or notified.
C16_RefusalLeavesStore ==
    [][ (out'.op = "auth_refused") =>
            /\ rooms' = rooms
            /\ adapterRoom' = adapterRoom
            /\ out'.error \in { "Missing token", "Missing voice channel ID",
                                "Invalid Discord token", "Auth error" }
            /\ out'.msgs = <<>>
            /\ sockets'[out'.socket].state = "closed" ]_vars

\* A token rejected by the identity provider, for a room key that has no room.
C16_Witness ==
    /\ out.op = "auth_refused"
    /\ out.error = "Invalid Discord token"
    /\ ~RoomExists

\* C17: in an active push round, the first select_option of a player is
\* recorded and broadcast as player_selected; every later select_option of
\* the same player in the same round changes nothing in the room (selections
\* and scores included) and emits nothing.
C17_OneAnswerPerRound ==
    [][ \A s \in 1..NumSockets, o \in OptionInputs :
          ( /\ out'.op \in {"ignored", "push_select_option"}
            /\ PushSelectOption(s, o)
            /\ RoomExists
            /\ Room.gameState = "active"
            /\ Room.currentQuestion.kind # "null"
            /\ sockets[s].user \in DOMAIN Room.players )
          => LET user == sockets[s].user
             IN  IF user \in DOMAIN Room.selections
                 THEN /\ rooms' = rooms
                      /\ out'.msgs = <<>>
                 ELSE /\ out'.msgs # <<>>
                      /\ out'.msgs[1] = [ type |-> "player_selected",
                                          playerId |-> user, optionIndex |-> o ]
                      /\ \/ /\ user \in DOMAIN rooms'[Channel].selections
                            /\ rooms'[Channel].selections[user] = o
                         \/ /\ Len(out'.msgs) > 1
                            /\ out'.msgs[2].type = "show_result"
                            /\ out'.msgs[2].selections[user] = o ]_vars

\* A select_option was ignored in a round that is still active with its
\* question: the sender had answered already, another player has not.
C17_Witness ==
    /\ out.op = "ignored"
    /\ RoomExists
    /\ Room.gameState = "active"
    /\ Room.currentQuestion.kind # "null"
    /\ \E s \in 1..NumSockets :
          /\ sockets[s].state = "connected"
          /\ sockets[s].user \in DOMAIN Room.players
          /\ sockets[s].user \in DOMAIN Room.selections
    /\ DOMAIN Room.players # DOMAIN Room.selections

\* A later select_option of a player who has a selection in the unresolved
\* pull round replaces it, and the first end_round scores every player on
\* the selection recorded at that moment.
PullAnswerChange ==
    /\ \A p \in Users, o \in OptionInputs :
          ( /\ out'.op = "select_option"
            /\ SelectOption(p, o, 2, FALSE)
            /\ RoomExists
            /\ Room.currentQuestion.kind # "null"
            /\ ~Room.roundEnded
            /\ p \in DOMAIN Room.currentSelections )
          => rooms'[Channel].currentSelections[p].optionIndex = o
    /\ ( /\ out'.op = "end_round"
         /\ EndRound
         /\ RoomExists
         /\ Room.currentQuestion.kind # "null"
         /\ ~Room.roundEnded )
       => \A p \in Users : ScoreIn(rooms', p) = ScoreIn(rooms, p) + PointsOwed(p)

\* The select_option of socket s with option o is a later one: the round is
\* active and the sender, a player of the room, has a selection in it.
LaterPushSelect(s, o) ==
    /\ out'.op \in {"ignored", "push_select_option"}
    /\ RoomExists
    /\ Room.gameState = "active"
    /\ Room.currentQuestion.kind # "null"
    /\ sockets[s].user \in DOMAIN Room.players
    /\ sockets[s].user \in DOMAIN Room.selections
    /\ PushSelectOption(s, o)

\* C18 as stated: a later select_option replaces the player's recorded
\* selection on the pull transport and on the push transport alike, and the
\* round is scored on the latest selection.
C18_AnswerChangeBothTransports ==
    [][ /\ PullAnswerChange
        /\ \A s \in 1..NumSockets, o \in OptionInputs :
              LaterPushSelect(s, o) =>
                 /\ sockets[s].user \in DOMAIN rooms'[Channel].selections
                 /\ rooms'[Channel].selections[sockets[s].user] = o ]_vars

\* C18 as the code has it: a later select_option replaces the selection on
\* the pull transport, and the round is scored on the latest selection; on
\* the push transport the first selection of the round stands.
C18_AnswerChangePullOnly ==
    [][ /\ PullAnswerChange
        /\ \A s \in 1..NumSockets, o \in OptionInputs :
              LaterPushSelect(s, o) =>
                 rooms'[Channel].selections = Room.selections ]_vars

\* A changed the selection of the unresolved pull round from the wrong
\* option to the correct one.
C18_Witness ==
    /\ out.op = "select_option"
    /\ out.changed
    /\ RoomExists
    /\ Room.currentQuestion.kind = "trivia"
    /\ ~Room.roundEnded
    /\ "A" \in DOMAIN Room.currentSelections
    /\ SelectionIsCorrect(Room.currentQuestion, Room.currentSelections["A"].optionIndex)

\* C19: a player who reconnects with the same identity keeps the cumulative
\* score.  In the ordering where the new connection has joined before the
\* old connection's disconnect event is handled: when a connection of a
\* player with points disconnects while another connection of the same
\* identity is in the room, the player is still in the room afterwards with
\* the same score.
C19_ScorePersistsAcrossReconnect ==
    [][ \A s \in 1..NumSockets :
          ( /\ out'.op = "disconnect"
            /\ out'.socket = s
            /\ RoomExists
            /\ sockets[s].user \in DOMAIN Room.players
            /\ Room.players[sockets[s].user].score > 0
            /\ \E r \in 1..NumSockets \ {s} :
                  /\ sockets[r].state = "connected"
                  /\ sockets[r].user = sockets[s].user )
          => /\ Channel \in DOMAIN rooms'
             /\ sockets[s].user \in DOMAIN rooms'[Channel].players
             /\ rooms'[Channel].players[sockets[s].user].score
                   = Room.players[sockets[s].user].score ]_vars

\* The answers of the POST game-event routes and of GET game-state.
HttpResponses ==
    { "start_question", "follower_response", "follower_failed",
      "select_option", "end_round", "game_state", "error" }

\* C20: every response of the POST game-event routes and of the GET
\* game-state route carries a boolean success field, whatever the event and
\* the room's state, on rooms created by the push transport and on requests
\* that end in an internal error too.
C20_ResponseEnvelope ==
    out.op \in HttpResponses =>
        /\ "success" \in DOMAIN out
        /\ out.success \in BOOLEAN

\* C21: GET game-state on an existing room changes nothing in the room
\* (question, questionStartTime, selections, scores, roundEnded,
\* generatingQuestion and gameState included); on an unknown room key it
\* creates an empty room in state waiting and answers with success and no
\* current question.
C21_GameStateIsPureRead ==
    [][ (out'.op = "game_state") =>
           IF RoomExists
           THEN rooms' = rooms
           ELSE /\ rooms' = Put(rooms, Channel, NewRoom(NoSocket, TRUE))
                /\ rooms'[Channel].gameState = "waiting"
                /\ rooms'[Channel].players = EmptyMap
                /\ out'.success
                /\ out'.question = NullQuestion ]_vars

\* GET game-state answered with the question of a pull round that has a
\* selection recorded.
C21_Witness ==
    /\ out.op = "game_state"
    /\ out.question.kind # "null"
    /\ RoomExists
    /\ Room.currentSelections # EmptyMap

\* C22: no inbound event of the push transport (start_question,
\* select_option with or without a payload, disconnect) and no timer
\* callback raises an error that nothing handles.
C22_NoUnhandledError ==
    out.op # "uncaught_exception"

\* C23: while the room key is absent no round-expiry timer is pending, at
\* most one expiry timer is pending at any time, and it is the one the room
\* holds; a room that leaves the Room Store (disconnect of the last player,
\* inactivity sweep) has its timer cancelled in the same step.
C23_NoTimerOutlivesRoom ==
    /\ Cardinality(pendingTimers) <= 1
    /\ IF RoomExists THEN pendingTimers = Room.timer ELSE pendingTimers = {}

\* The inactivity sweep deleted a room whose round timer was still armed.
C23_Witness ==
    /\ out.op = "cleanup"
    /\ out.deleted
    /\ out.cleared # {}
    /\ ~RoomExists

\* C24: a push round that was not resolved early is resolved by its expiry
\* timer: when the timer fires on an existing room that holds the question,
\* show_result is broadcast and the question and the selections are
\* cleared; and no push round stays open forever: a room with a push
\* question eventually has none, or is gone.
C24_StuckRoundIsResolved ==
    /\ [][ ( /\ out'.op = "timer"
             /\ RoomExists
             /\ Room.currentQuestion.kind = "push" )
           => /\ out'.msgs[1].type = "show_result"
              /\ out'.msgs[1].selections = Room.selections
              /\ rooms'[Channel].currentQuestion = NullQuestion
              /\ rooms'[Channel].selections = EmptyMap
              /\ pendingTimers' = {} ]_vars
    /\ (RoomExists /\ Room.currentQuestion.kind = "push")
          ~> (~RoomExists \/ Room.currentQuestion.kind = "null")

\* The timer resolved a round in which a player of the room had not answered.
C24_Witness ==
    /\ out.op = "timer"
    /\ out.msgs # <<>>
    /\ out.msgs[1].type = "show_result"
    /\ RoomExists
    /\ Room.currentQuestion = NullQuestion
    /\ DOMAIN Room.players # {}
    /\ DOMAIN Room.players # DOMAIN out.msgs[1].selections

C27_EarlyResolutionNeedsAll ==
    [][ ( /\ out'.op = "push_select_option"
          /\ Len(out'.msgs) > 1
          /\ out'.msgs[2].type = "show_result" )
        => \A p \in DOMAIN Room.players : p \in DOMAIN out'.msgs[2].selections ]_vars

\* C28: a start_question from a connection that is not the host, a
\* start_question while a round is active, and a select_option while no
\* round is active leave the room as it is, timer and host included, and
\* send no message.
C28_InvalidEventsAreNoOps ==
    [][ \A s \in 1..NumSockets :
          /\ ( /\ out'.op = "ignored"
               /\ RoomExists
               /\ (Room.hostSocketId # s \/ Room.gameState = "active")
               /\ StartQuestion(s) )
             => (rooms' = rooms /\ pendingTimers' = pendingTimers /\ out'.msgs = <<>>)
          /\ ( /\ RoomExists
               /\ (Room.hostSocketId # s \/ Room.gameState = "active")
               /\ sockets[s].state = "connected"
               /\ out'.op = "push_start_question" )
             => out'.socket # s
          /\ \A o \in OptionInputs :
               ( /\ RoomExists
                 /\ (Room.currentQuestion.kind = "null" \/ Room.gameState # "active")
                 /\ PushSelectOption(s, o) )
               => (rooms' = rooms /\ pendingTimers' = pendingTimers /\ out'.msgs = <<>>) ]_vars

\* An event was ignored in a room that has a host, another connection and
\* no question: a start_question of the other connection or in a round's
\* active state, or a select_option without a question.
C28_Witness ==
    /\ out.op = "ignored"
    /\ RoomExists
    /\ Room.currentQuestion.kind = "null"
    /\ Room.hostSocketId # NoSocket
    /\ \E s \in 1..NumSockets :
          sockets[s].state = "connected" /\ s # Room.hostSocketId

\* C29: after the disconnect of a player's connection has been handled, the
\* room, if it is still there, has no entry for that player in players, in
\* scores or in the selections of the round in progress.
C29_RemovalIsComplete ==
    [][ (out'.op = "disconnect" /\ Channel \in DOMAIN rooms') =>
           LET user == sockets[out'.socket].user
               room == rooms'[Channel]
           IN  /\ user \notin DOMAIN room.players
               /\ user \notin DOMAIN room.scores
               /\ user \notin DOMAIN room.selections ]_vars

\* C30: the generation guard is transient.  Every request handler runs to its
\* end before the next one starts, so after every step no start_question is
\* between setting and clearing the flag, and generatingQuestion is false;
\* and a force-new start_question sent when the round has ended answers with
\* a freshly generated question and leaves roundEnded false: it is neither
\* parked behind the guard nor answered with the ended round's question.
C30_GenerationGuardIsTransient ==
    [][ /\ (Channel \in DOMAIN rooms' => ~rooms'[Channel].generatingQuestion)
        /\ ( /\ RoomExists
             /\ Room.roundEnded
             /\ IF out'.op = "start_question" THEN out'.forceNew
                ELSE out'.op = "start_question_parked" )
           => ( /\ out'.op = "start_question"
                /\ out'.generated
                /\ ~rooms'[Channel].roundEnded ) ]_vars

\* C31: the two game-event routes are one behaviour.  The handlers of
\* select_option and end_round have the same text on both routes (SelectOption,
\* EndRound); for start_question, every step that one route can take on a
\* request in a room state is a step the other route takes on the same
\* request: the same change to the room and the same question and time left.
C31_RoutesAreOneBehaviour ==
    [][ out'.op \in {"start_question", "start_question_parked"} =>
          \A forceNew \in BOOLEAN, seen \in 0..generated :
             ApiStartQuestion(forceNew, seen, MaxRounds)
                <=> FallbackStartQuestion(forceNew, seen, MaxRounds) ]_vars

\* A message that carries a correct option index, in a field of its own or
\* inside the question object it sends.
CarriesCorrectIndex(m) ==
    \/ "correctIndex" \in DOMAIN m
    \/ /\ "currentQuestion" \in DOMAIN m
       /\ "correctIndex" \in DOMAIN m.currentQuestion

\* C32: the correct answer is disclosed only at resolution: of the messages
\* the push transport sends (question_started, player_selected, room_state,
\* the game_state snapshot, show_result), only show_result contains the
\* round's correct option index.
C32_AnswerOnlyInShowResult ==
    [][ "msgs" \in DOMAIN out' =>
          \A i \in 1..Len(out'.msgs) :
             CarriesCorrectIndex(out'.msgs[i]) => out'.msgs[i].type = "show_result" ]_vars

\* C33: a resolution of a push round (by its timer or by the last answer)
\* adds bonusFactor = ceil((remaining / maxTime) * 10), a value in 0..10
\* computed from the whole seconds remaining at that moment, once to the
\* score of each player of the room whose selection is the question's correct
\* index, and leaves the score of every other player as it was.
C33_BonusFactorRule ==
    [][ ( /\ out'.op \in {"timer", "push_select_option"}
          /\ HasShowResult(out'.msgs)
          /\ RoomExists
          /\ Room.currentQuestion.kind = "push" )
        => LET q == Room.currentQuestion
               selections ==
                   IF out'.op = "push_select_option"
                   THEN Put(Room.selections, out'.msgs[1].playerId, out'.msgs[1].optionIndex)
                   ELSE Room.selections
               elapsed == (now - q.startTime) \div 1000
               remaining == IF elapsed >= q.maxTime THEN 0 ELSE q.maxTime - elapsed
               bonusFactor == CHOOSE b \in 0..10 :
                                 /\ b * q.maxTime >= remaining * 10
                                 /\ (b - 1) * q.maxTime < remaining * 10
               earned(uid) == IF uid \in DOMAIN selections /\ selections[uid] = q.correctIndex
                              THEN bonusFactor ELSE 0
           IN  /\ DOMAIN rooms'[Channel].players = DOMAIN Room.players
               /\ \A uid \in DOMAIN Room.players :
                     /\ rooms'[Channel].players[uid].score
                           = Room.players[uid].score + earned(uid)
                     /\ rooms'[Channel].scores[uid]
                           = Room.players[uid].score + earned(uid) ]_vars

\* A round was resolved by its last answer while time remained: one player's
\* pick was the correct index and earned a bonus factor strictly between 0
\* and 10, another player's pick was not and earned nothing.
C33_Witness ==
    /\ out.op = "push_select_option"
    /\ HasShowResult(out.msgs)
    /\ RoomExists
    /\ LET m == ShowResult(out.msgs)
       IN  \E a \in DOMAIN Room.players, b \in DOMAIN Room.players :
              /\ a \in DOMAIN m.selections /\ b \in DOMAIN m.selections
              /\ m.selections[a] \in m.correctIndex
              /\ m.selections[b] \notin m.correctIndex
              /\ Room.players[a].score > 0 /\ Room.players[a].score < 10
              /\ Room.players[b].score = 0

\* C34: lastActive tracks every mutation: after a join, a disconnect, a push
\* start_question, select_option or round resolution, a pull start_question
\* that generates, a pull select_option or a pull end_round that has changed
\* the room, the room's lastActive is the time of that event.
C34_LastActiveTracksMutation ==
    [][ ( /\ \/ out'.op \in {"connection", "disconnect", "push_start_question",
                             "push_select_option", "timer", "select_option", "end_round"}
             \/ (out'.op = "start_question" /\ out'.generated)
          /\ Channel \in DOMAIN rooms'
          /\ (RoomExists => rooms'[Channel] # Room) )
        => rooms'[Channel].lastActive = now' ]_vars

\* C35: one run of the inactivity sweep deletes exactly the rooms whose
\* lastActive is more than the inactivity threshold in the past, cancels the
\* pending timer of each of them, and leaves every other room, its fields and
\* its timer as they were.
C35_SweepDeletesExactlyInactive ==
    [][ out'.op = "cleanup" =>
          LET old == {c \in DOMAIN rooms : now - rooms[c].lastActive > ROOM_INACTIVE_THRESHOLD}
          IN  /\ DOMAIN rooms' = DOMAIN rooms \ old
              /\ \A c \in DOMAIN rooms' : rooms'[c] = rooms[c]
              /\ pendingTimers' = pendingTimers \ UNION {rooms[c].timer : c \in old} ]_vars

\* A sweep found two rooms: it deleted one, whose round timer was pending and
\* was cancelled, and kept the other, which was active within the threshold.
C35_Witness ==
    /\ out.op = "cleanup"
    /\ out.removed # {}
    /\ out.cleared # {}
    /\ pendingTimers = {}
    /\ DOMAIN rooms # {}

\* C36: no answer, no points: in every round resolution, by the round timer,
\* by the last answer of a push round or by a pull end_round, a player who has
\* no recorded selection for the round has the same score afterwards as
\* before, also when a pull start_question has replaced the question of a
\* push round in progress.
C36_NoAnswerNoPoints ==
    [][ /\ ( /\ out'.op \in {"timer", "push_select_option"}
             /\ HasShowResult(out'.msgs)
             /\ RoomExists )
           => \A uid \in DOMAIN Room.players :
                 ( /\ uid \notin DOMAIN Room.selections
                   /\ (out'.op = "push_select_option" => uid # out'.msgs[1].playerId) )
                 => rooms'[Channel].players[uid].score = Room.players[uid].score
        /\ (out'.op = "end_round" /\ RoomExists)
           => \A p \in Users :
                 p \notin DOMAIN Room.currentSelections
                 => ScoreIn(rooms', p) = ScoreIn(rooms, p) ]_vars

\* C37: scores are not lost between resets: over every step of the push or
\* the pull transport, a participant who is a player of the room before and
\* after the step and has an entry in the score view keeps an entry, and its
\* value does not decrease.
C37_ScoreViewNeverDecreases ==
    [][ (RoomExists /\ Channel \in DOMAIN rooms' /\ out'.op # "reset")
        => \A p \in (DOMAIN Room.players) \cap (DOMAIN rooms'[Channel].players) :
              p \in DOMAIN Room.scores
              => /\ p \in DOMAIN rooms'[Channel].scores
                 /\ rooms'[Channel].scores[p] >= Room.scores[p] ]_vars

\* C38: every live connection has its player: each connection that is
\* connected to the room has a player entry for its identity in the room, and
\* the room is in the store as long as a connection to it is live, also when
\* one identity holds two connections and one of them disconnects.
C38_LiveConnectionHasPlayer ==
    \A s \in 1..NumSockets :
        sockets[s].state = "connected"
        => /\ RoomExists
           /\ sockets[s].user \in DOMAIN Room.players

\* C39: a failed pull request changes nothing: a POST game-event request that
\* is answered with the generic failure response leaves the room store as it
\* was before the request: no selection recorded, no score and no flag changed.
C39_FailedRequestChangesNothing ==
    [][ (out'.op = "error" /\ out'.status = 500) => rooms' = rooms ]_vars

\* C40: a pending timer always has a question: whenever a round timer is
\* pending, its room is in the store, holds that timer and has a current
\* question, and no timer callback has run into a missing question.
C40_PendingTimerHasQuestion ==
    /\ \A h \in pendingTimers :
          /\ RoomExists
          /\ h \in Room.timer
          /\ Room.currentQuestion.kind # "null"
    /\ ~(out.op = "uncaught_exception" /\ out.socket = NoSocket)

\* The daily reset ran on a room whose push round was replaced by a question
\* of the pull transport while the round's timer is still pending.
C40_Witness ==
    /\ out.op = "reset"
    /\ pendingTimers # {}
    /\ RoomExists
    /\ Room.currentQuestion.kind \in {"card", "trivia"}

====
